---- MODULE Spec2Model ----
(***************************************************************************)
(* A model of websocket-proxy-sniffer (src/main.go): the request tap       *)
(* middleware (Sniffer / sniffer.ServeHTTP), the hijack interception       *)
(* adapter (CallbackHijacker / callbackHijacker.Hijack) and the            *)
(* duplicating connection wrapper (TeeConn / teeConn.Read / teeConn.Write).*)
(* io.TeeReader, io.MultiWriter and io.Pipe are modelled by what the Go    *)
(* standard library does; the real connection, the wrapped handler and the *)
(* observer callback are the environment.                                  *)
(***************************************************************************)
EXTENDS Integers, Sequences, FiniteSets, TLC

\* ---------------------------------------------------------------- bounds
MaxLen == 2        \* largest buffer handed to Read / Write
MaxCalls == 3      \* Hijack, Read and Write calls the handlers make together

\* size of readLoop's buffer: data := make([]byte, 1024)
ReadLoopBuf == 1024

Reqs == {1, 2}
Tasks == {1, 2}
Dirs == {"in", "out"}

\* error values
Nil == "nil"
ConnErr == "connErr"
HijackErr == "hijackErr"
ErrClosedPipe == "io.ErrClosedPipe"
ErrShortWrite == "io.ErrShortWrite"

Min(a, b) == IF a < b THEN a ELSE b
Take(s, n) == SubSeq(s, 1, n)
Drop(s, n) == SubSeq(s, n + 1, Len(s))

VARIABLES
    callback,    \* the OnHijacked value bound by Sniffer(h, callback)
    callers,     \* the handler tasks that call Read (and Write) on one conn
    hijackable,  \* hijackable[r]: the server's response object is a Hijacker
    hpc,         \* hpc[r]: where request r's serving task stands
    resp,        \* resp[r]: the response object the wrapped handler was given
    served,      \* served[r]: times the wrapped handler was invoked
    hreq,        \* hreq[r]: the request the wrapped handler was given
    hjOK,        \* hjOK[r]: underlying hijacks that succeeded
    under,       \* under[r]: what h.hijacker.Hijack() returned last
    hjRet,       \* hjRet[r]: what the adapter's Hijack returned last
    npipes,      \* npipes[r]: pipes allocated by io.Pipe()
    cbCalls,     \* cbCalls[r]: invocations of the observer callback
    cbArgs,      \* cbArgs[r]: arguments of the last invocation
    tee,         \* tee[r]: the teeConn the handler holds
    cons,        \* cons[r][d]: the consumer of pipe d's read end
    sink,        \* sink[r][d]: bytes read out of pipe d by the observer
    rd,          \* rd[r][t]: task t's Read call on the teeConn
    wr,          \* wr[r][t]: task t's Write call on the teeConn
    connRd,      \* connRd[r]: bytes the real conn returned to teeConn reads
    connWr,      \* connWr[r]: bytes the real conn accepted from teeConn writes
    sockIn,      \* sockIn[r]: every byte read from the real socket
    sockOut,     \* sockOut[r]: every byte written to the real socket
    sockClosed,  \* sockClosed[r]: the real conn has been closed
    deadline,    \* deadline[r]: a deadline has been set on the real conn
    budget       \* calls the handlers may still make

vars == <<callback, callers, hijackable, hpc, resp, served, hreq, hjOK,
          under, hjRet, npipes, cbCalls, cbArgs, tee, cons, sink, rd, wr,
          connRd, connWr, sockIn, sockOut, sockClosed, deadline, budget>>

hijackVars == <<hpc, resp, served, hreq, hjOK, under, hjRet, npipes,
                cbCalls, cbArgs, tee>>
ioVars == <<sink, rd, wr, connRd, connWr, sockIn, sockOut, sockClosed,
           deadline, budget>>
fixedVars == <<callback, callers, hijackable>>

\* ------------------------------------------------------------ data values
\* The bytes of a socket are told apart by the request, the direction and
\* their place in the stream.
InByte(r, pos) == 16 * r + pos
OutByte(r, pos) == 128 + 16 * r + pos
\* the next n bytes the peer of request r's socket sends, after s
InChunk(r, s, n) == [i \in 1..n |-> InByte(r, Len(s) + i)]
\* the next n bytes the handler of request r sends, after s
OutChunk(r, s, n) == [i \in 1..n |-> OutByte(r, Len(s) + i)]

NoObj == [kind |-> "none"]
NoRes == [conn |-> "none", buf |-> "none", err |-> Nil]
IdleOp == [pc |-> "idle", pend |-> <<>>, acc |-> 0,
           cn |-> 0, cerr |-> Nil, n |-> 0, err |-> Nil, ret |-> FALSE]

Pipe(r, gen, d) == [req |-> r, gen |-> gen, dir |-> d]

\* a slip: the two writers are wired to the wrong directions
TeeConn_Swapped(conn, in, out) ==
    [kind |-> "teeConn", Conn |-> conn, reader |-> out, writer |-> in]

\* ------------------------------------------------- the wrapper's plumbing
\* TeeConn: reader is io.TeeReader(conn, in), writer is io.MultiWriter(conn, out)
TeeConn(conn, in, out) == [kind |-> "teeConn", Conn |-> conn,
                           reader |-> in, writer |-> out]

\* a slip: the bytes of a read that also reports an error are not copied
TeeWritesSink_OnlyOnSuccess(n, err) == n > 0 /\ err = Nil

\* io.TeeReader.Read: n, err = r.Read(p); if n > 0 { write p[:n] to the sink }
TeeWritesSink(n, err) == n > 0

\* io.TeeReader.Read: if n, err := w.Write(p[:n]); err != nil { return n, err }
TeeReadResult(cn, cerr, sn, serr) ==
    IF serr # Nil THEN [n |-> sn, err |-> serr] ELSE [n |-> cn, err |-> cerr]

\* a slip: a tee that writes the sink whatever the conn's Write returned
MultiWriteStops_Never(len, cn, cerr) == FALSE

\* io.MultiWriter.Write, first writer (the conn): an error or a short write
\* ends the call before the second writer (the sink) is reached.
MultiWriteStops(len, cn, cerr) == cerr # Nil \/ cn # len

MultiWriteConnResult(len, cn, cerr) ==
    IF cerr # Nil THEN [n |-> cn, err |-> cerr]
    ELSE [n |-> cn, err |-> ErrShortWrite]

\* io.MultiWriter.Write, second writer (the sink), then return len(p), nil
MultiWriteResult(len, sn, serr) ==
    IF serr # Nil THEN [n |-> sn, err |-> serr]
    ELSE IF sn # len THEN [n |-> sn, err |-> ErrShortWrite]
    ELSE [n |-> len, err |-> Nil]

\* The observer's read buffer: readLoop reads into 1024 bytes, another
\* observer may read a byte at a time.
ConsBuf == IF callback = "readLoop" THEN ReadLoopBuf ELSE 1

\* io.Pipe: one Write hands Min(len(b), len(reader's buffer)) bytes to a
\* blocked Read, at least once even for an empty b.
PipeStep(pend) == Min(Len(pend), ConsBuf)

\* io.Pipe's wrMu: a Write in progress on a pipe excludes the other writers.
PipeFree(ops_r, t) == \A u \in Tasks \ {t} :
                          ~(ops_r[u].pc = "sink" /\ ops_r[u].acc > 0)

\* ------------------------------------------------------- the adapter
\* a slip: the adapter is installed without the capability check
CallbackHijacker_Always(w, r, cb) ==
    [kind |-> "callbackHijacker", ResponseWriter |-> w, hijacker |-> w,
     request |-> r, callback |-> cb]

\* CallbackHijacker: if h, ok := w.(http.Hijacker); ok { w = &callbackHijacker{...} }
CallbackHijacker(w, r, cb) ==
    IF w.canHijack
    THEN [kind |-> "callbackHijacker", ResponseWriter |-> w, hijacker |-> w,
          request |-> r, callback |-> cb]
    ELSE w

\* w.(http.Hijacker) as the wrapped handler sees it
IsHijacker(w) ==
    \/ w.kind = "callbackHijacker"
    \/ (w.kind = "writer" /\ w.canHijack)

\* the response object the HTTP server hands to ServeHTTP for request r
ServerWriter(r) == [kind |-> "writer", id |-> r, canHijack |-> hijackable[r]]

\* a slip: a callback that keeps the read ends and starts no consumer
Spawned_Never(cb) == "absent"

\* what the consumers of a hijack are after the callback returned
Spawned(cb) == IF cb = "none" THEN "absent" ELSE "reading"

\* the reader of read end d once the callback has been entered: "inOnly" is
\* an observer that starts a consumer for the inbound stream only, "inline"
\* one that reads the inbound stream in the callback itself
SpawnedAt(cb, d) ==
    IF cb \in {"inOnly", "inline"} /\ d = "out" THEN "absent" ELSE Spawned(cb)

\* the callback returns to Hijack without waiting on a pipe; the "inline"
\* one returns once its pipe Read has got bytes
Returns(cb) == cb # "inline"

Quiet(r) ==
    /\ \A t \in Tasks : rd[r][t].pc = "idle" /\ wr[r][t].pc = "idle"
    /\ sockIn[r] = <<>> /\ sockOut[r] = <<>>

\* ------------------------------------------------------------ Init
InitOf(kinds, c, arriving, b) ==
    /\ callback \in kinds
    /\ callers = c
    /\ hijackable \in {h \in [Reqs -> BOOLEAN] :
                           \A r \in Reqs \ arriving : ~h[r]}
    /\ hpc = [r \in Reqs |-> IF r \in arriving THEN "new" ELSE "absent"]
    /\ resp = [r \in Reqs |-> NoObj]
    /\ served = [r \in Reqs |-> 0]
    /\ hreq = [r \in Reqs |-> 0]
    /\ hjOK = [r \in Reqs |-> 0]
    /\ under = [r \in Reqs |-> NoRes]
    /\ hjRet = [r \in Reqs |-> NoRes]
    /\ npipes = [r \in Reqs |-> 0]
    /\ cbCalls = [r \in Reqs |-> 0]
    /\ cbArgs = [r \in Reqs |-> NoObj]
    /\ tee = [r \in Reqs |-> NoObj]
    /\ cons = [r \in Reqs |-> [d \in Dirs |-> "absent"]]
    /\ sink = [r \in Reqs |-> [d \in Dirs |-> <<>>]]
    /\ rd = [r \in Reqs |-> [t \in Tasks |-> IdleOp]]
    /\ wr = [r \in Reqs |-> [t \in Tasks |-> IdleOp]]
    /\ connRd = [r \in Reqs |-> <<>>]
    /\ connWr = [r \in Reqs |-> <<>>]
    /\ sockIn = [r \in Reqs |-> <<>>]
    /\ sockOut = [r \in Reqs |-> <<>>]
    /\ sockClosed = [r \in Reqs |-> FALSE]
    /\ deadline = [r \in Reqs |-> FALSE]
    /\ budget = b

\* the observers of the base model: main's, one that may close its read
\* ends, and one that never reads
InitWith(c, arriving, b) == InitOf({"readLoop", "custom", "none"}, c, arriving, b)

\* one request, one task per direction
Init == InitWith({1}, {1}, MaxCalls)

\* every request arrives
MultiInit == InitWith({1}, Reqs, MaxCalls)

\* ------------------------------------------------------------ middleware
\* a slip: the tap is set up when the request is wrapped, not on Hijack
ServeHTTP_EagerTap(r) ==
    /\ hpc[r] = "new"
    /\ resp' = [resp EXCEPT ![r] = CallbackHijacker(ServerWriter(r), r, callback)]
    /\ served' = [served EXCEPT ![r] = @ + 1]
    /\ hreq' = [hreq EXCEPT ![r] = r]
    /\ hpc' = [hpc EXCEPT ![r] = "serving"]
    /\ npipes' = [npipes EXCEPT ![r] = @ + 2]
    /\ cbCalls' = [cbCalls EXCEPT ![r] = @ + 1]
    /\ UNCHANGED <<hjOK, under, hjRet, cbArgs, tee, cons>>
    /\ UNCHANGED ioVars
    /\ UNCHANGED fixedVars

\* a slip: the adapter is bound to one request kept in the shared sniffer
ServeHTTP_SharedRequest(r) ==
    /\ hpc[r] = "new"
    /\ resp' = [resp EXCEPT ![r] = CallbackHijacker(ServerWriter(r), 1, callback)]
    /\ served' = [served EXCEPT ![r] = @ + 1]
    /\ hreq' = [hreq EXCEPT ![r] = r]
    /\ hpc' = [hpc EXCEPT ![r] = "serving"]
    /\ UNCHANGED <<hjOK, under, hjRet, npipes, cbCalls, cbArgs, tee,
                   cons>>
    /\ UNCHANGED ioVars
    /\ UNCHANGED fixedVars

\* a slip: the wrapped handler is given the server's own response object
ServeHTTP_Unwrapped(r) ==
    /\ hpc[r] = "new"
    /\ resp' = [resp EXCEPT ![r] = ServerWriter(r)]
    /\ served' = [served EXCEPT ![r] = @ + 1]
    /\ hreq' = [hreq EXCEPT ![r] = r]
    /\ hpc' = [hpc EXCEPT ![r] = "serving"]
    /\ UNCHANGED <<hjOK, under, hjRet, npipes, cbCalls, cbArgs, tee,
                   cons>>
    /\ UNCHANGED ioVars
    /\ UNCHANGED fixedVars

\* sniffer.ServeHTTP: w = CallbackHijacker(w, r, s.callback); s.handler.ServeHTTP(w, r)
ServeHTTP(r) ==
    /\ hpc[r] = "new"
    /\ resp' = [resp EXCEPT ![r] = CallbackHijacker(ServerWriter(r), r, callback)]
    /\ served' = [served EXCEPT ![r] = @ + 1]
    /\ hreq' = [hreq EXCEPT ![r] = r]
    /\ hpc' = [hpc EXCEPT ![r] = "serving"]
    /\ UNCHANGED <<hjOK, under, hjRet, npipes, cbCalls, cbArgs, tee,
                   cons>>
    /\ UNCHANGED ioVars
    /\ UNCHANGED fixedVars

\* the wrapped handler returns
HandlerReturn(r) ==
    /\ hpc[r] = "serving"
    /\ \A t \in Tasks : rd[r][t].pc = "idle" /\ wr[r][t].pc = "idle"
    /\ hpc' = [hpc EXCEPT ![r] = "done"]
    /\ UNCHANGED <<resp, served, hreq, hjOK, under, hjRet, npipes, cbCalls,
                   cbArgs, tee, cons>>
    /\ UNCHANGED ioVars
    /\ UNCHANGED fixedVars

\* ------------------------------------------------------------ Hijack
\* what the server's own Hijack may return
UnderResults ==
    {[conn |-> "conn", buf |-> "buf", err |-> Nil]} \cup
    {[conn |-> c, buf |-> "nil", err |-> HijackErr] : c \in {"nil", "conn"}}

\* a slip: the error of the underlying Hijack is not checked, so a failed
\* hijack goes on to the pipes, the callback and the wrapping
HijackUnder_NoErrCheck(r) ==
    /\ hpc[r] = "serving"
    /\ resp[r].kind = "callbackHijacker"
    /\ budget > 0
    /\ Quiet(r)
    /\ \E res \in UnderResults :
         /\ under' = [under EXCEPT ![r] = res]
         /\ budget' = budget - 1
         /\ hpc' = [hpc EXCEPT ![r] = "hj_pipes"]
         /\ hjOK' = [hjOK EXCEPT ![r] = @ + 1]
         /\ UNCHANGED hjRet
    /\ UNCHANGED <<resp, served, hreq, npipes, cbCalls, cbArgs, tee, cons>>
    /\ UNCHANGED <<sink, rd, wr, connRd, connWr, sockIn, sockOut, sockClosed, deadline>>
    /\ UNCHANGED fixedVars

\* a slip: a failed underlying Hijack still goes on to the pipes and the
\* callback
HijackUnder_CallbackOnFailure(r) ==
    /\ hpc[r] = "serving"
    /\ resp[r].kind = "callbackHijacker"
    /\ budget > 0
    /\ Quiet(r)
    /\ \E res \in UnderResults :
         /\ under' = [under EXCEPT ![r] = res]
         /\ budget' = budget - 1
         /\ hpc' = [hpc EXCEPT ![r] = "hj_pipes"]
         /\ hjOK' = [hjOK EXCEPT ![r] = IF res.err = Nil THEN @ + 1 ELSE @]
         /\ UNCHANGED hjRet
    /\ UNCHANGED <<resp, served, hreq, npipes, cbCalls, cbArgs, tee, cons>>
    /\ UNCHANGED <<sink, rd, wr, connRd, connWr, sockIn, sockOut, sockClosed, deadline>>
    /\ UNCHANGED fixedVars

\* conn, buf, err := h.hijacker.Hijack(); if err != nil { return conn, buf, err }
HijackUnder(r) ==
    /\ hpc[r] = "serving"
    /\ resp[r].kind = "callbackHijacker"
    /\ budget > 0
    /\ Quiet(r)
    /\ \E res \in UnderResults :
         /\ under' = [under EXCEPT ![r] = res]
         /\ budget' = budget - 1
         /\ IF res.err # Nil
            THEN /\ hjRet' = [hjRet EXCEPT ![r] = res]
                 /\ UNCHANGED <<hpc, hjOK>>
            ELSE /\ hpc' = [hpc EXCEPT ![r] = "hj_pipes"]
                 /\ hjOK' = [hjOK EXCEPT ![r] = @ + 1]
                 /\ UNCHANGED hjRet
    /\ UNCHANGED <<resp, served, hreq, npipes, cbCalls, cbArgs, tee, cons>>
    /\ UNCHANGED <<sink, rd, wr, connRd, connWr, sockIn, sockOut, sockClosed, deadline>>
    /\ UNCHANGED fixedVars

\* a slip: the wrapped conn is returned without the callback being invoked
HijackPipes_SkipCallback(r) ==
    /\ hpc[r] = "hj_pipes"
    /\ npipes' = [npipes EXCEPT ![r] = @ + 2]
    /\ hpc' = [hpc EXCEPT ![r] = "hj_ret"]
    /\ UNCHANGED <<resp, served, hreq, hjOK, under, hjRet, cbCalls, cbArgs,
                   tee, cons>>
    /\ UNCHANGED ioVars
    /\ UNCHANGED fixedVars

\* rIn, wIn := io.Pipe(); rOut, wOut := io.Pipe()
HijackPipes(r) ==
    /\ hpc[r] = "hj_pipes"
    /\ npipes' = [npipes EXCEPT ![r] = @ + 2]
    /\ hpc' = [hpc EXCEPT ![r] = "hj_cb"]
    /\ UNCHANGED <<resp, served, hreq, hjOK, under, hjRet, cbCalls, cbArgs,
                   tee, cons>>
    /\ UNCHANGED ioVars
    /\ UNCHANGED fixedVars

\* a slip: the callback is started on a task of its own and Hijack goes on
HijackCallback_Async(r) ==
    /\ hpc[r] = "hj_cb"
    /\ cbCalls' = [cbCalls EXCEPT ![r] = @ + 1]
    /\ cbArgs' = [cbArgs EXCEPT ![r] =
                    [kind |-> "args", request |-> resp[r].request,
                     in |-> Pipe(r, hjOK[r], "in"),
                     out |-> Pipe(r, hjOK[r], "out")]]
    /\ cons' = [cons EXCEPT ![r] = [d \in Dirs |-> SpawnedAt(resp[r].callback, d)]]
    /\ hpc' = [hpc EXCEPT ![r] = "hj_ret"]
    /\ UNCHANGED <<resp, served, hreq, hjOK, under, hjRet, npipes, tee>>
    /\ UNCHANGED ioVars
    /\ UNCHANGED fixedVars

\* h.callback(h.request, rIn, rOut); main's callback starts two readLoops
HijackCallback(r) ==
    /\ hpc[r] = "hj_cb"
    /\ cbCalls' = [cbCalls EXCEPT ![r] = @ + 1]
    /\ cbArgs' = [cbArgs EXCEPT ![r] =
                    [kind |-> "args", request |-> resp[r].request,
                     in |-> Pipe(r, hjOK[r], "in"),
                     out |-> Pipe(r, hjOK[r], "out")]]
    /\ cons' = [cons EXCEPT ![r] = [d \in Dirs |-> SpawnedAt(resp[r].callback, d)]]
    /\ hpc' = [hpc EXCEPT ![r] = IF Returns(resp[r].callback) THEN "hj_ret"
                                  ELSE "in_cb"]
    /\ UNCHANGED <<resp, served, hreq, hjOK, under, hjRet, npipes, tee>>
    /\ UNCHANGED ioVars
    /\ UNCHANGED fixedVars

\* return TeeConn(conn, wIn, wOut), buf, nil
HijackReturn(r) ==
    /\ hpc[r] = "hj_ret"
    /\ tee' = [tee EXCEPT ![r] = TeeConn(under[r].conn, Pipe(r, hjOK[r], "in"),
                                          Pipe(r, hjOK[r], "out"))]
    /\ hjRet' = [hjRet EXCEPT ![r] =
                   [conn |-> "teeConn", buf |-> under[r].buf, err |-> Nil]]
    /\ hpc' = [hpc EXCEPT ![r] = "serving"]
    /\ UNCHANGED <<resp, served, hreq, hjOK, under, npipes, cbCalls, cbArgs,
                   cons>>
    /\ UNCHANGED ioVars
    /\ UNCHANGED fixedVars

\* ------------------------------------------------------------ the socket
\* what the real conn's Read may return for a buffer of k bytes
ConnReadResults(r, k) ==
    IF sockClosed[r] THEN {<<0, ConnErr>>}
    ELSE {<<n, e>> : n \in 0..k, e \in {Nil, ConnErr}}

\* what the real conn's Write may return for k bytes (io.Writer: a short
\* write comes with an error)
ConnWriteResults(r, k) ==
    IF sockClosed[r] THEN {<<0, ConnErr>>}
    ELSE {<<k, Nil>>} \cup {<<n, ConnErr>> : n \in 0..(k - 1)}
         \cup (IF k = 0 THEN {<<0, ConnErr>>} ELSE {})

Returned(o, res, sn) ==
    [o EXCEPT !.pc = "idle", !.pend = <<>>, !.acc = sn,
              !.n = res.n, !.err = res.err, !.ret = TRUE]

CanCall(r, t) ==
    /\ hpc[r] = "serving"
    /\ tee[r].kind = "teeConn"
    /\ t \in callers
    /\ budget > 0

\* ------------------------------------------------------------ teeConn.Read
\* c.reader.Read(p): the TeeReader reads the conn, then writes the sink
TeeReadConn(r, t) ==
    /\ CanCall(r, t)
    /\ rd[r][t].pc = "idle"
    /\ \E k \in 0..MaxLen : \E res \in ConnReadResults(r, k) :
         LET n == res[1]
             e == res[2]
             chunk == InChunk(r, sockIn[r], n)
             o == [IdleOp EXCEPT !.cn = n, !.cerr = e]
         IN /\ sockIn' = [sockIn EXCEPT ![r] = @ \o chunk]
            /\ connRd' = [connRd EXCEPT ![r] = @ \o chunk]
            /\ rd' = [rd EXCEPT ![r][t] =
                        IF TeeWritesSink(n, e)
                        THEN [o EXCEPT !.pc = "sink", !.pend = chunk]
                        ELSE Returned(o, TeeReadResult(n, e, 0, Nil), 0)]
    /\ budget' = budget - 1
    /\ UNCHANGED <<sink, wr, connWr, sockOut, sockClosed, deadline, cons>>
    /\ UNCHANGED hijackVars
    /\ UNCHANGED fixedVars

\* the TeeReader's w.Write(p[:n]) on the pipe: a blocked consumer takes
\* bytes; a callback that was reading the pipe itself goes on and returns
TeeReadSink(r, t) ==
    LET o == rd[r][t]
        d == tee[r].reader.dir
        nr == PipeStep(o.pend)
        rest == Drop(o.pend, nr)
    IN /\ o.pc = "sink"
       /\ cons[r][d] = "reading"
       /\ PipeFree(rd[r], t)
       /\ sink' = [sink EXCEPT ![r][d] = @ \o Take(o.pend, nr)]
       /\ rd' = [rd EXCEPT ![r][t] =
                   IF rest = <<>>
                   THEN Returned(o, TeeReadResult(o.cn, o.cerr, o.acc + nr, Nil),
                                 o.acc + nr)
                   ELSE [o EXCEPT !.pend = rest, !.acc = o.acc + nr]]
       /\ IF hpc[r] = "in_cb"
          THEN /\ hpc' = [hpc EXCEPT ![r] = "hj_ret"]
               /\ cons' = [cons EXCEPT ![r][d] = "absent"]
          ELSE UNCHANGED <<hpc, cons>>
       /\ UNCHANGED <<wr, connRd, connWr, sockIn, sockOut, sockClosed, deadline,
                      budget>>
       /\ UNCHANGED <<resp, served, hreq, hjOK, under, hjRet, npipes, cbCalls,
                      cbArgs, tee>>
       /\ UNCHANGED fixedVars

\* the TeeReader's w.Write(p[:n]) on a pipe whose read end is closed
TeeReadSinkFail(r, t) ==
    LET o == rd[r][t]
        d == tee[r].reader.dir
    IN /\ o.pc = "sink"
       /\ cons[r][d] = "closed"
       /\ rd' = [rd EXCEPT ![r][t] =
                   Returned(o, TeeReadResult(o.cn, o.cerr, o.acc, ErrClosedPipe),
                            o.acc)]
       /\ UNCHANGED <<sink, wr, connRd, connWr, sockIn, sockOut, sockClosed, deadline, budget,
                      cons>>
       /\ UNCHANGED hijackVars
       /\ UNCHANGED fixedVars

\* ------------------------------------------------------------ teeConn.Write
\* c.writer.Write(p): the MultiWriter writes the conn first
TeeWriteConn(r, t) ==
    /\ CanCall(r, t)
    /\ wr[r][t].pc = "idle"
    /\ \E k \in 0..MaxLen : \E res \in ConnWriteResults(r, k) :
         LET n == res[1]
             e == res[2]
             p == OutChunk(r, sockOut[r], k)
             o == [IdleOp EXCEPT !.cn = n, !.cerr = e]
         IN /\ sockOut' = [sockOut EXCEPT ![r] = @ \o Take(p, n)]
            /\ connWr' = [connWr EXCEPT ![r] = @ \o Take(p, n)]
            /\ wr' = [wr EXCEPT ![r][t] =
                        IF MultiWriteStops(k, n, e)
                        THEN Returned(o, MultiWriteConnResult(k, n, e), 0)
                        ELSE [o EXCEPT !.pc = "sink", !.pend = p]]
    /\ budget' = budget - 1
    /\ UNCHANGED <<sink, rd, connRd, sockIn, sockClosed, deadline, cons>>
    /\ UNCHANGED hijackVars
    /\ UNCHANGED fixedVars

\* a slip: the outbound sink is a buffer, so the copy returns without a
\* consumer having read it
TeeWriteSink_Buffered(r, t) ==
    LET o == wr[r][t]
        len == o.acc + Len(o.pend)
    IN /\ o.pc = "sink"
       /\ wr' = [wr EXCEPT ![r][t] =
                   Returned(o, MultiWriteResult(len, len, Nil), len)]
       /\ UNCHANGED <<sink, rd, connRd, connWr, sockIn, sockOut, sockClosed,
                      deadline, budget, cons>>
       /\ UNCHANGED hijackVars
       /\ UNCHANGED fixedVars

\* the MultiWriter's second Write, on the pipe: a blocked consumer takes bytes
TeeWriteSink(r, t) ==
    LET o == wr[r][t]
        d == tee[r].writer.dir
        nr == PipeStep(o.pend)
        rest == Drop(o.pend, nr)
        len == o.acc + Len(o.pend)
    IN /\ o.pc = "sink"
       /\ cons[r][d] = "reading"
       /\ PipeFree(wr[r], t)
       /\ sink' = [sink EXCEPT ![r][d] = @ \o Take(o.pend, nr)]
       /\ wr' = [wr EXCEPT ![r][t] =
                   IF rest = <<>>
                   THEN Returned(o, MultiWriteResult(len, o.acc + nr, Nil),
                                 o.acc + nr)
                   ELSE [o EXCEPT !.pend = rest, !.acc = o.acc + nr]]
       /\ UNCHANGED <<rd, connRd, connWr, sockIn, sockOut, sockClosed, deadline, budget, cons>>
       /\ UNCHANGED hijackVars
       /\ UNCHANGED fixedVars

\* the MultiWriter's second Write, on a pipe whose read end is closed
TeeWriteSinkFail(r, t) ==
    LET o == wr[r][t]
        d == tee[r].writer.dir
        len == o.acc + Len(o.pend)
    IN /\ o.pc = "sink"
       /\ cons[r][d] = "closed"
       /\ wr' = [wr EXCEPT ![r][t] =
                   Returned(o, MultiWriteResult(len, o.acc, ErrClosedPipe), o.acc)]
       /\ UNCHANGED <<sink, rd, connRd, connWr, sockIn, sockOut, sockClosed, deadline, budget,
                      cons>>
       /\ UNCHANGED hijackVars
       /\ UNCHANGED fixedVars

\* a slip: a Close that also closes the pipes the observer reads
ConnClose_ClosesPipes(r) ==
    /\ hpc[r] = "serving"
    /\ tee[r].kind = "teeConn"
    /\ ~sockClosed[r]
    /\ sockClosed' = [sockClosed EXCEPT ![r] = TRUE]
    /\ cons' = [cons EXCEPT ![r] =
                  [d \in Dirs |-> IF cons[r][d] = "reading" THEN "closed"
                                  ELSE cons[r][d]]]
    /\ UNCHANGED <<sink, rd, wr, connRd, connWr, sockIn, sockOut, deadline,
                   budget>>
    /\ UNCHANGED hijackVars
    /\ UNCHANGED fixedVars

\* ------------------------------------------------------------ environment
\* teeConn embeds net.Conn: Close() is the real conn's Close()
ConnClose(r) ==
    /\ hpc[r] = "serving"
    /\ tee[r].kind = "teeConn"
    /\ ~sockClosed[r]
    /\ sockClosed' = [sockClosed EXCEPT ![r] = TRUE]
    /\ UNCHANGED <<sink, rd, wr, connRd, connWr, sockIn, sockOut, deadline,
                   budget, cons>>
    /\ UNCHANGED hijackVars
    /\ UNCHANGED fixedVars

\* the other methods of the embedded net.Conn: a deadline setter changes the
\* real conn's deadline, an address query changes nothing
ConnMethods == {"SetDeadline", "RemoteAddr"}

\* teeConn embeds net.Conn: every method but Read and Write is the real
\* conn's own
ConnOther(r) ==
    /\ hpc[r] = "serving"
    /\ tee[r].kind = "teeConn"
    /\ tee[r].Conn = "conn"
    /\ budget > 0
    /\ \E m \in ConnMethods :
         deadline' = [deadline EXCEPT ![r] = @ \/ m = "SetDeadline"]
    /\ budget' = budget - 1
    /\ UNCHANGED <<sink, rd, wr, connRd, connWr, sockIn, sockOut, sockClosed,
                   cons>>
    /\ UNCHANGED hijackVars
    /\ UNCHANGED fixedVars

CanUseBuf(r) ==
    /\ hpc[r] = "serving"
    /\ hjRet[r].buf = "buf"
    /\ ~sockClosed[r]
    /\ budget > 0

\* the handler reads through the *bufio.ReadWriter Hijack returned: it is the
\* server's own, around the real conn
BufRead(r) ==
    /\ CanUseBuf(r)
    /\ \E n \in 1..MaxLen :
         sockIn' = [sockIn EXCEPT ![r] = @ \o InChunk(r, sockIn[r], n)]
    /\ budget' = budget - 1
    /\ UNCHANGED <<sink, rd, wr, connRd, connWr, sockOut, sockClosed, deadline, cons>>
    /\ UNCHANGED hijackVars
    /\ UNCHANGED fixedVars

\* the handler writes and flushes through that *bufio.ReadWriter
BufWrite(r) ==
    /\ CanUseBuf(r)
    /\ \E n \in 1..MaxLen :
         sockOut' = [sockOut EXCEPT ![r] = @ \o OutChunk(r, sockOut[r], n)]
    /\ budget' = budget - 1
    /\ UNCHANGED <<sink, rd, wr, connRd, connWr, sockIn, sockClosed, deadline, cons>>
    /\ UNCHANGED hijackVars
    /\ UNCHANGED fixedVars

\* a pipe Write is blocked on pipe d of request r
PipeWritePending(r, d) ==
    \E t \in Tasks : \/ (rd[r][t].pc = "sink" /\ tee[r].reader.dir = d)
                     \/ (wr[r][t].pc = "sink" /\ tee[r].writer.dir = d)

\* an observer other than main's closes the read end it was given, and its
\* reader of that end returns with the error. The wrapper meets a closed read
\* end only in a pipe Write, so the observer closes while one is blocked.
ObserverClose(r, d) ==
    /\ callback = "custom"
    /\ cons[r][d] = "reading"
    /\ PipeWritePending(r, d)
    /\ cons' = [cons EXCEPT ![r][d] = "closed"]
    /\ UNCHANGED ioVars
    /\ UNCHANGED hijackVars
    /\ UNCHANGED fixedVars

\* ------------------------------------------------------------ Next, Spec
Next ==
    \E r \in Reqs :
        \/ ServeHTTP(r)
        \/ HandlerReturn(r)
        \/ HijackUnder(r)
        \/ HijackPipes(r)
        \/ HijackCallback(r)
        \/ HijackReturn(r)
        \/ ConnClose(r)
        \/ ConnOther(r)
        \/ BufRead(r)
        \/ BufWrite(r)
        \/ \E d \in Dirs : ObserverClose(r, d)
        \/ \E t \in Tasks :
              \/ TeeReadConn(r, t)
              \/ TeeReadSink(r, t)
              \/ TeeReadSinkFail(r, t)
              \/ TeeWriteConn(r, t)
              \/ TeeWriteSink(r, t)
              \/ TeeWriteSinkFail(r, t)

Spec == Init /\ [][Next]_vars

MultiSpec == MultiInit /\ [][Next]_vars

\* one request whose handler uses the wrapped conn from two tasks at once
ConcInit == InitWith(Tasks, {1}, MaxCalls)

ConcSpec == ConcInit /\ [][Next]_vars

\* the steps the Go scheduler takes on its own once they are enabled: the
\* rest of a Hijack call and the pipe Writes of a Read or Write call
CodeStep(r) ==
    \/ HijackPipes(r)
    \/ HijackCallback(r)
    \/ HijackReturn(r)
    \/ \E t \in Tasks : \/ TeeReadSink(r, t)
                        \/ TeeReadSinkFail(r, t)
                        \/ TeeWriteSink(r, t)
                        \/ TeeWriteSinkFail(r, t)

FairSpec == Init /\ [][Next]_vars /\ \A r \in Reqs : WF_vars(CodeStep(r))

\* one request under any observer, with the scheduler's fairness
ObserverInit ==
    InitOf({"readLoop", "custom", "none", "inOnly", "inline"}, {1}, {1}, MaxCalls)

ObserverSpec ==
    ObserverInit /\ [][Next]_vars /\ \A r \in Reqs : WF_vars(CodeStep(r))

\* ================================================================ claims
IsPrefix(s, t) == Len(s) <= Len(t) /\ s = Take(t, Len(s))
ReadersIdle(r) == \A t \in Tasks : rd[r][t].pc = "idle"
WritersIdle(r) == \A t \in Tasks : wr[r][t].pc = "idle"

\* C1: whenever no Write call is in progress, the bytes delivered to the
\* outbound sink are, in order, exactly the bytes the real connection
\* accepted from Write calls on the wrapped connection.
C1_WriteFidelity ==
    \A r \in Reqs : WritersIdle(r) => sink[r]["out"] = connWr[r]

\* C2 as stated: whenever no Read call is in progress, the bytes delivered to
\* the inbound sink are, in order, exactly the bytes the real connection's
\* reads returned.
C2_ReadFidelityAlways ==
    \A r \in Reqs : ReadersIdle(r) => sink[r]["in"] = connRd[r]

\* C2 as amended: the inbound sink always holds a prefix of the bytes the
\* real connection's reads returned; while the inbound pipe's read end is not
\* closed it holds all of them whenever no Read is in progress, a Read in
\* progress waits for exactly the missing bytes, and a Read that returned had
\* its whole chunk taken by the sink.
C2_ReadFidelity ==
    \A r \in Reqs :
        /\ IsPrefix(sink[r]["in"], connRd[r])
        /\ cons[r]["in"] # "closed" =>
             /\ ReadersIdle(r) => sink[r]["in"] = connRd[r]
             /\ \A t \in callers :
                  /\ rd[r][t].pc = "sink" =>
                       sink[r]["in"] \o rd[r][t].pend = connRd[r]
                  /\ rd[r][t].ret => /\ rd[r][t].acc = rd[r][t].cn
                                     /\ rd[r][t].n = rd[r][t].cn

\* C2's case: two reads have returned, the last with bytes and an error, and
\* the sink holds the bytes of both.
C2_Witness ==
    /\ rd[1][1].ret /\ rd[1][1].pc = "idle"
    /\ rd[1][1].cn = 1 /\ rd[1][1].cerr = ConnErr
    /\ Len(connRd[1]) = 3
    /\ sink[1]["in"] = connRd[1]

\* C3: every byte the handler read from or wrote to the real socket went
\* through the wrapped connection, the only path that copies to the observer.
C3_CompleteCoverage ==
    \A r \in Reqs : sockIn[r] = connRd[r] /\ sockOut[r] = connWr[r]

\* C4: the callback has been invoked once for every successful underlying
\* hijack by the time Hijack returns, and whenever the handler holds the
\* wrapped connection, or any byte has moved through it, the callback has
\* already received the read ends of the pipes the wrapper writes to.
C4_CallbackOrder ==
    \A r \in Reqs :
        /\ cbCalls[r] = IF hpc[r] \in {"hj_pipes", "hj_cb"}
                        THEN hjOK[r] - 1 ELSE hjOK[r]
        /\ (hpc[r] \in {"serving", "done"} /\ tee[r].kind = "teeConn") =>
             /\ cbCalls[r] >= 1
             /\ cbArgs[r].kind = "args"
             /\ cbArgs[r].in = tee[r].reader
             /\ cbArgs[r].out = tee[r].writer
        /\ (\/ \E t \in Tasks : rd[r][t] # IdleOp \/ wr[r][t] # IdleOp
            \/ \E d \in Dirs : sink[r][d] # <<>>) =>
             /\ cbCalls[r] >= 1
             /\ cbArgs[r].kind = "args"
             /\ tee[r].kind = "teeConn"

\* C4's case: Hijack has returned the wrapped connection, a Read on it has
\* returned bytes, and the callback ran once.
C4_Witness ==
    /\ hpc[1] = "serving" /\ hjRet[1].conn = "teeConn"
    /\ rd[1][1].ret /\ rd[1][1].n > 0
    /\ cbCalls[1] = 1 /\ hjOK[1] = 1

\* C5: every error a Read or Write on the wrapped connection returns is the
\* error the real connection returned for that call.
C5_SinkIsolation ==
    \A r \in Reqs : \A t \in Tasks :
        /\ (rd[r][t].ret /\ rd[r][t].err # Nil) => rd[r][t].err = rd[r][t].cerr
        /\ (wr[r][t].ret /\ wr[r][t].err # Nil) => wr[r][t].err = wr[r][t].cerr

\* C6: a Hijack call whose underlying Hijack fails returns the underlying
\* connection, buffer and error as they are, allocates no pipe, wraps
\* nothing and does not invoke the callback.
C6_HijackFailure ==
    [][\A r \in Reqs :
          (HijackUnder(r) /\ under'[r].err # Nil) =>
              /\ hjRet'[r] = under'[r]
              /\ npipes'[r] = npipes[r]
              /\ cbCalls'[r] = cbCalls[r]
              /\ cbArgs'[r] = cbArgs[r]
              /\ tee'[r] = tee[r]
              /\ cons'[r] = cons[r]
              /\ hpc'[r] = "serving"]_vars

\* C6's case: a Hijack failed with a connection in its result, and the
\* handler got that result and nothing else happened.
C6_Witness ==
    /\ under[1].err = HijackErr /\ under[1].conn = "conn"
    /\ hjRet[1] = under[1]
    /\ npipes[1] = 0 /\ cbCalls[1] = 0 /\ tee[1] = NoObj

\* C7: a request whose handler has not called Hijack has no callback
\* invocation and no pipe, whatever the other requests do.
C7_NoTapNoCost ==
    \A r \in Reqs :
        under[r] = NoRes =>
            /\ cbCalls[r] = 0
            /\ npipes[r] = 0
            /\ cbArgs[r] = NoObj
            /\ tee[r] = NoObj
            /\ \A q \in Reqs : cbArgs[q].kind = "args" => cbArgs[q].request # r

\* C7's case: request 1 was served to the end by a handler that could have
\* hijacked and did not, while request 2 was hijacked and tapped.
C7_Witness ==
    /\ hpc[1] = "done" /\ hijackable[1] /\ under[1] = NoRes
    /\ cbCalls[2] = 1 /\ tee[2].kind = "teeConn"

\* C8: the object the handler is given exposes Hijack exactly when the
\* server's object does, and is the server's own object when it does not.
C8_Passthrough ==
    \A r \in Reqs :
        hpc[r] \notin {"new", "absent"} =>
            /\ IsHijacker(resp[r]) <=> hijackable[r]
            /\ ~hijackable[r] => resp[r] = ServerWriter(r)
            /\ hijackable[r] => /\ resp[r].kind = "callbackHijacker"
                                /\ resp[r].ResponseWriter = ServerWriter(r)

\* C8's case: a request whose response object cannot be hijacked was served
\* to the end with that very object.
C8_Witness ==
    /\ hpc[1] = "done" /\ ~hijackable[1]
    /\ resp[1] = ServerWriter(1) /\ served[1] = 1

\* C9: once the real socket of a hijack session is closed, both consumers
\* blocked reading the pipes eventually stop.
C9_ConsumersTerminate ==
    \A r \in Reqs :
        sockClosed[r] ~> (\A d \in Dirs : cons[r][d] # "reading")

\* C10: whenever the real connection's Read or Write returned an error, the
\* call on the wrapped connection returned that same error.
C10_ConnErrorsKept ==
    \A r \in Reqs : \A t \in Tasks :
        /\ (rd[r][t].ret /\ rd[r][t].cerr # Nil) => rd[r][t].err = rd[r][t].cerr
        /\ (wr[r][t].ret /\ wr[r][t].cerr # Nil) => wr[r][t].err = wr[r][t].cerr

C12_RealWriteFirst ==
    /\ [](\A r \in Reqs : \A t \in Tasks :
            /\ wr[r][t].pc = "sink" =>
                 /\ wr[r][t].cerr = Nil
                 /\ wr[r][t].cn = wr[r][t].acc + Len(wr[r][t].pend)
            /\ (wr[r][t].ret /\ wr[r][t].cerr # Nil) => wr[r][t].acc = 0
            /\ (CanCall(r, t) /\ wr[r][t].pc = "idle") =>
                 ENABLED TeeWriteConn(r, t))
    /\ [][\A r \in Reqs :
             /\ sink'[r]["out"] # sink[r]["out"] =>
                  /\ connWr'[r] = connWr[r]
                  /\ \E t \in Tasks :
                       /\ wr[r][t].pc = "sink"
                       /\ wr[r][t].cerr = Nil
                       /\ wr[r][t].cn = wr[r][t].acc + Len(wr[r][t].pend)
             /\ \A t \in Tasks :
                  (wr[r][t].pc = "idle" /\ wr'[r][t] # wr[r][t]) =>
                      /\ sink'[r] = sink[r]
                      /\ Len(connWr'[r]) = Len(connWr[r]) + wr'[r][t].cn]_vars

\* C12's case: a first Write was accepted and copied to the outbound sink,
\* and a second one, of which the real connection took one byte before
\* failing, returned with nothing added to the sink.
C12_Witness ==
    /\ wr[1][1].ret /\ wr[1][1].cerr = ConnErr /\ wr[1][1].cn = 1
    /\ Len(connWr[1]) = 2
    /\ sink[1]["out"] = <<connWr[1][1]>>
    /\ cons[1]["out"] = "reading"

\* C13: with main's observer, whose two consumers keep reading, a Read or a
\* Write whose real-connection operation has returned and that now waits on
\* its pipe eventually returns, whatever the other path is doing.
C13_BackpressureNoDeadlock ==
    \A r \in Reqs : \A t \in Tasks :
        /\ (callback = "readLoop" /\ rd[r][t].pc = "sink") ~> rd[r][t].pc = "idle"
        /\ (callback = "readLoop" /\ wr[r][t].pc = "sink") ~> wr[r][t].pc = "idle"

\* C13's case: with main's observer, a Read and a Write of the same session
\* both wait on their pipes at the same time.
C13_Witness ==
    /\ callback = "readLoop"
    /\ rd[1][1].pc = "sink" /\ wr[1][1].pc = "sink"
    /\ \A d \in Dirs : cons[1][d] = "reading"

\* s can be obtained from t by deleting elements: the elements of s occur
\* in t in the same order
RECURSIVE IsSubseq(_, _)
IsSubseq(s, t) ==
    IF s = <<>> THEN TRUE
    ELSE IF t = <<>> THEN FALSE
    ELSE IF Head(s) = Head(t) THEN IsSubseq(Tail(s), Tail(t))
    ELSE IsSubseq(s, Tail(t))

\* C14: with several tasks calling Write, or Read, on the same wrapped
\* connection at once, the bytes reach each sink in the order in which the
\* real connection accepted, or returned, them.
C14_OrderUnderConcurrency ==
    \A r \in Reqs :
        /\ IsSubseq(sink[r]["out"], connWr[r])
        /\ IsSubseq(sink[r]["in"], connRd[r])

Bytes(s) == {s[i] : i \in DOMAIN s}

\* C15: the first stream the callback received carries only bytes the
\* handler obtained through Read on the wrapped connection, the second only
\* bytes the real connection accepted from Write; they are two pipes and no
\* byte of one direction shows up in the other.
C15_DirectionSeparation ==
    \A r \in Reqs :
        cbArgs[r].kind = "args" =>
            /\ cbArgs[r].in # cbArgs[r].out
            /\ Bytes(sink[r][cbArgs[r].in.dir]) \subseteq Bytes(connRd[r])
            /\ Bytes(sink[r][cbArgs[r].out.dir]) \subseteq Bytes(connWr[r])
            /\ Bytes(sink[r][cbArgs[r].in.dir]) \cap Bytes(connWr[r]) = {}
            /\ Bytes(sink[r][cbArgs[r].out.dir]) \cap Bytes(connRd[r]) = {}

\* C15's case: in one session the handler read a byte and wrote a byte, and
\* each arrived on its own stream.
C15_Witness ==
    /\ cbArgs[1].kind = "args"
    /\ connRd[1] # <<>> /\ sink[1][cbArgs[1].in.dir] = connRd[1]
    /\ connWr[1] # <<>> /\ sink[1][cbArgs[1].out.dir] = connWr[1]

PipesOf(a) == IF a.kind = "args" THEN {a.in, a.out} ELSE {}

\* C16: with requests served concurrently, each callback invocation gets
\* the request whose handler hijacked and the read ends of the pipes that
\* request's wrapped connection writes; every successful hijack makes two
\* pipes that no earlier invocation and no other request has; and the
\* streams of a request hold bytes of its own socket only.
C16_PerRequestIndependence ==
    /\ [](\A r \in Reqs :
            /\ cbArgs[r].kind = "args" => cbArgs[r].request = r
            /\ npipes[r] = 2 * (IF hpc[r] = "hj_pipes" THEN hjOK[r] - 1
                                ELSE hjOK[r])
            /\ (hpc[r] \in {"serving", "done"} /\ tee[r].kind = "teeConn") =>
                 {tee[r].reader, tee[r].writer} = PipesOf(cbArgs[r])
            /\ \A q \in Reqs \ {r} :
                 /\ PipesOf(cbArgs[r]) \cap PipesOf(cbArgs[q]) = {}
                 /\ \A d \in Dirs :
                      Bytes(sink[r][d]) \cap
                          (Bytes(sockIn[q]) \cup Bytes(sockOut[q])) = {}
            /\ Bytes(sink[r]["in"]) \subseteq Bytes(sockIn[r])
            /\ Bytes(sink[r]["out"]) \subseteq Bytes(sockOut[r]))
    /\ [][\A r \in Reqs :
             cbCalls'[r] # cbCalls[r] =>
                 /\ Cardinality(PipesOf(cbArgs'[r])) = 2
                 /\ PipesOf(cbArgs'[r]) \cap PipesOf(cbArgs[r]) = {}]_vars

\* C16's case: two requests are hijacked at the same time, each callback
\* got its own request, and bytes of the second one's socket were copied.
C16_Witness ==
    /\ cbArgs[1].kind = "args" /\ cbArgs[2].kind = "args"
    /\ hpc[1] = "serving" /\ hpc[2] = "serving"
    /\ tee[1].kind = "teeConn" /\ tee[2].kind = "teeConn"
    /\ sink[2]["in"] # <<>>

\* C17: Close, a deadline setter or an address query on the wrapped
\* connection is the real connection's own method: it acts on the real
\* connection only, writes nothing to either sink, does not invoke the
\* callback, allocates no pipe and leaves both pipes, their consumers and
\* the calls waiting on them as they were.
C17_OtherOpsPassThrough ==
    [][\A r \in Reqs :
          (ConnClose(r) \/ ConnOther(r)) =>
              /\ sink' = sink
              /\ cons' = cons
              /\ npipes' = npipes
              /\ cbCalls' = cbCalls /\ cbArgs' = cbArgs
              /\ rd' = rd /\ wr' = wr
              /\ tee' = tee /\ hjRet' = hjRet
              /\ connRd' = connRd /\ connWr' = connWr
              /\ \/ sockClosed'[r] /\ ~sockClosed[r] /\ deadline' = deadline
                 \/ sockClosed' = sockClosed /\ (deadline[r] => deadline'[r])]_vars

\* C17's case: in a session whose inbound sink already holds bytes, the
\* handler set a deadline and closed the wrapped connection, and both
\* consumers are still reading their pipes.
C17_Witness ==
    /\ sockClosed[1] /\ deadline[1]
    /\ sink[1]["in"] # <<>>
    /\ \A d \in Dirs : cons[1][d] = "reading"
    /\ cbCalls[1] = 1 /\ npipes[1] = 2

\* C18: the middleware invokes the wrapped handler exactly once for a
\* request it was given, with that request and with the response object
\* CallbackHijacker made from the server's response object, the request and
\* the sniffer's callback; the step that does so does nothing else.
C18_Delegation ==
    /\ [](\A r \in Reqs :
            /\ hpc[r] \in {"new", "absent"} => served[r] = 0
            /\ hpc[r] \notin {"new", "absent"} =>
                 /\ served[r] = 1
                 /\ hreq[r] = r
                 /\ resp[r] = CallbackHijacker(ServerWriter(r), r, callback))
    /\ [][\A r \in Reqs :
             served'[r] # served[r] =>
                 /\ hpc[r] = "new" /\ hpc'[r] = "serving"
                 /\ UNCHANGED <<hjOK, under, hjRet, npipes, cbCalls, cbArgs,
                                tee, cons>>
                 /\ UNCHANGED ioVars
                 /\ \A q \in Reqs \ {r} :
                      resp'[q] = resp[q] /\ hreq'[q] = hreq[q]]_vars

\* C18's case: two requests went through the middleware, one with a
\* hijackable response object and one without, each handler ran once with
\* its own request, and the first one hijacked.
C18_Witness ==
    /\ served[1] = 1 /\ served[2] = 1
    /\ hreq[1] = 1 /\ hreq[2] = 2
    /\ hijackable[1] /\ ~hijackable[2]
    /\ resp[1].kind = "callbackHijacker" /\ resp[2] = ServerWriter(2)
    /\ hpc[1] = "serving" /\ tee[1].kind = "teeConn" /\ hpc[2] = "done"

\* C19 as stated: a Write the real connection accepted, and a Read that got
\* bytes, has returned only with all its bytes read by the consumer.
C19_HandoffAlways ==
    \A r \in Reqs : \A t \in Tasks :
        /\ (wr[r][t].ret /\ wr[r][t].cerr = Nil) => wr[r][t].acc = wr[r][t].cn
        /\ (rd[r][t].ret /\ rd[r][t].cn > 0) => rd[r][t].acc = rd[r][t].cn

\* C19: unless the observer closed the read end, a Write the real connection
\* accepted and a Read that got bytes return in the very step in which the
\* consumer takes the last of their bytes; in a direction nobody reads such
\* a call never returns; and a call waiting on one pipe does not keep the
\* other pipe's consumer from taking bytes, so with a consumer on the
\* inbound stream only, Reads still return.
C19_SynchronousHandoff ==
    /\ [](\A r \in Reqs : \A t \in Tasks :
            /\ (wr[r][t].ret /\ wr[r][t].cerr = Nil
                    /\ wr[r][t].err # ErrClosedPipe) =>
                 wr[r][t].acc = wr[r][t].cn
            /\ (rd[r][t].ret /\ rd[r][t].cn > 0
                    /\ rd[r][t].err # ErrClosedPipe) =>
                 rd[r][t].acc = rd[r][t].cn
            /\ cons[r]["out"] = "absent" =>
                 ~(wr[r][t].ret /\ wr[r][t].cerr = Nil)
            /\ cons[r]["in"] = "absent" => ~(rd[r][t].ret /\ rd[r][t].cn > 0)
            /\ (rd[r][t].pc = "sink" /\ cons[r]["in"] = "reading"
                    /\ PipeFree(rd[r], t)) => ENABLED TeeReadSink(r, t)
            /\ (wr[r][t].pc = "sink" /\ cons[r]["out"] = "reading"
                    /\ PipeFree(wr[r], t)) => ENABLED TeeWriteSink(r, t))
    /\ [][\A r \in Reqs : \A t \in Tasks :
             /\ (wr[r][t].pc = "sink" /\ wr'[r][t].pc = "idle"
                     /\ wr'[r][t].err # ErrClosedPipe) =>
                  sink'[r]["out"] = sink[r]["out"] \o wr[r][t].pend
             /\ (rd[r][t].pc = "sink" /\ rd'[r][t].pc = "idle"
                     /\ rd'[r][t].err # ErrClosedPipe) =>
                  sink'[r]["in"] = sink[r]["in"] \o rd[r][t].pend
             /\ (wr[r][t].pc = "sink" /\ cons[r]["out"] = "absent") =>
                  wr'[r][t].pc = "sink"
             /\ (rd[r][t].pc = "sink" /\ cons[r]["in"] = "absent") =>
                  rd'[r][t].pc = "sink"]_vars
    /\ \A r \in Reqs : \A t \in Tasks :
          (callback = "inOnly" /\ rd[r][t].pc = "sink") ~> rd[r][t].pc = "idle"

\* C19's case: the observer reads the inbound stream only; a Write the real
\* connection accepted waits on the outbound pipe, and a Read of two bytes
\* has returned with both in the inbound sink.
C19_Witness ==
    /\ callback = "inOnly"
    /\ wr[1][1].pc = "sink" /\ wr[1][1].pend # <<>> /\ connWr[1] # <<>>
    /\ rd[1][1].ret /\ rd[1][1].n = 2 /\ rd[1][1].acc = 2
    /\ sink[1]["in"] = connRd[1] /\ sink[1]["out"] = <<>>

\* C20: Hijack hands the wrapped connection to the handler only after the
\* callback has returned, and does so whenever the callback returns; while
\* the callback runs nothing can write to the pipes, so a callback that
\* reads a pipe on the hijacking task stays in that read for ever and
\* Hijack never returns.
C20_HijackWaitsForCallback ==
    /\ [](\A r \in Reqs :
            /\ hpc[r] = "in_cb" =>
                 /\ ~Returns(callback)
                 /\ cbCalls[r] = hjOK[r]
                 /\ tee[r] = NoObj /\ hjRet[r].conn # "teeConn"
                 /\ \A d \in Dirs : sink[r][d] = <<>> /\ ~PipeWritePending(r, d)
                 /\ \A t \in Tasks : /\ ~ENABLED TeeReadConn(r, t)
                                     /\ ~ENABLED TeeWriteConn(r, t)
                 /\ \A d \in Dirs : ~ENABLED ObserverClose(r, d)
            /\ hjRet[r].conn = "teeConn" =>
                 Returns(callback) /\ cbCalls[r] >= 1
            /\ (~Returns(callback) /\ cbCalls[r] >= 1) => hpc[r] = "in_cb")
    /\ [][\A r \in Reqs : hpc[r] = "in_cb" => hpc'[r] = "in_cb"]_vars
    /\ \A r \in Reqs :
          (hpc[r] = "hj_cb" /\ Returns(callback)) ~>
              (hpc[r] = "serving" /\ hjRet[r].conn = "teeConn")

\* C20's case: the callback of a successful hijack was entered, reads the
\* inbound pipe on the hijacking task, and the handler has no connection.
C20_Witness ==
    /\ callback = "inline"
    /\ hpc[1] = "in_cb" /\ cbCalls[1] = 1 /\ under[1].err = Nil
    /\ cons[1]["in"] = "reading"
    /\ hjRet[1] = NoRes /\ tee[1] = NoObj
====
